---------------------------- MODULE Spec2Model ----------------------------
(* Resource lifecycle of the X11 backend of Weylus: the display connection *)
(* (XDisplay behind an Arc), the capturables derived from it, the capture  *)
(* session bound to a capturable, and the global fltk lock around native   *)
(* calls.  Every thread executes one operation at a time, statement by     *)
(* step by step; a native call has an entry step and a return step, so     *)
(* that two calls being in progress at once is a state of the model.  The  *)
(* thread-local statements around a call are part of the step next to them.*)
(* A second part models the message loop of the server: the decoding and   *)
(* encoding of the protocol messages and the handling of TryGetFrame and   *)
(* GetCapturableList.                                                      *)
EXTENDS Integers, FiniteSets, Sequences, TLC

(* ------------------------------ bounds -------------------------------- *)
MaxCaps == 2
MaxDim == 2
MaxCode == 3
MaxReq == 3
MaxExtra == 2

(* ------------------------- program constants -------------------------- *)
HandlesLen == 128
EmptyCode == 2
U8Max == 255
NONE == 0
PRIMARY == 1
SECONDARY == 2
AUXILARY == 4
FOURTH == 8
FIFTH == 16

(* X11Context is not Send: it lives on the thread that made it (main);    *)
(* X11Capturable is Send, and a capturable may be used by either thread.  *)
NoThread == "none"
MainThread == "main"
Threads == {MainThread, "worker"}
CapIds == 1..MaxCaps
Codes == 0..MaxCode
Null == 0

VARIABLES
    thr,        \* thr[t]: the operation thread t is in, its position and locals
    lock,       \* holder of the fltk lock, or NoThread
    ctx,        \* the X11Context value: [st, owner]
    disp,       \* the XDisplay behind the Arc: [st, handle, closes]
    strong,     \* strong count of the Arc<XDisplay>
    caps,       \* caps[i]: the X11Capturable values: [st, handle]
    nextHandle, \* native side: capturable handles handed out so far
    destroyed,  \* destroyed[h]: destroy_capturable calls on native handle h
    sess,       \* the ScreenCaptureX11 value
    stops,      \* stop_capture calls on the handle of the session
    hist,       \* size after the last successful capture, result of the last one
    trace,      \* native releases made by the drop of the session, in order
    inbox,      \* message loop: the encoded message being dealt with
    msg,        \* message loop: the decoded message, or the decoding error
    sent,       \* the value whose encoding is in inbox, when the server encoded it
    frames,     \* message loop: TryGetFrame requests, capture() calls, frames sent
    reply       \* message loop: the answer to the last GetCapturableList

(* the state of the message loop *)
server == <<inbox, msg, sent, frames, reply>>
(* the state of the X11 resources *)
resources == <<thr, lock, ctx, disp, strong, caps, nextHandle, destroyed, sess,
               stops, hist, trace>>

vars == <<thr, lock, ctx, disp, strong, caps, nextHandle, destroyed, sess, stops,
          hist, trace, server>>

Min(a, b) == IF a < b THEN a ELSE b

(* op, pc: the operation and the position in it; obj: the capturable it   *)
(* works on; n: a local; code: the code the native call reported; res,    *)
(* err, out: the value returned (its kind, the code an error carries, the *)
(* capturables handed to the caller)                                      *)
IdleThread == [op |-> "none", pc |-> "idle", obj |-> 0, code |-> 0, n |-> 0,
               res |-> "none", err |-> 0, out |-> <<>>]
FreeCap == [st |-> "free", handle |-> Null]
NoSess == [st |-> "none", owner |-> NoThread, handle |-> Null, cap |-> 0,
           data |-> Null, width |-> 0, height |-> 0, capture_cursor |-> FALSE]
NoHist == [size |-> <<0, 0>>, last |-> "none", succ |-> FALSE]

(* A field of an encoded message: an unsigned 8-bit integer, a struct with  *)
(* the one field bits, or no such field.                                    *)
U8(n) == [kind |-> "u8", val |-> n]
BitsStruct(n) == [kind |-> "struct", val |-> n]
Absent == [kind |-> "absent", val |-> 0]
(* message values: a variant and, for PointerEvent, its two Button fields *)
Message(tag) == [tag |-> tag, button |-> NONE, buttons |-> NONE]
NoMsg == Message("none")
DecodeError == Message("decode error")
NoWire == [tag |-> "none", button |-> Absent, buttons |-> Absent]
NoFrames == [phase |-> "idle", reqs |-> 0, accepted |-> 0, captures |-> 0, out |-> 0]
NoReply == [res |-> "none", avail |-> 0, count |-> 0, list |-> <<>>]

Init ==
    /\ thr = [t \in Threads |-> IdleThread]
    /\ lock = NoThread
    /\ ctx = [st |-> "none", owner |-> NoThread]
    /\ disp = [st |-> "none", handle |-> Null, closes |-> 0]
    /\ strong = 0
    /\ caps = [i \in CapIds |-> FreeCap]
    /\ nextHandle = 0
    /\ destroyed = [h \in CapIds |-> 0]
    /\ sess = NoSess
    /\ stops = 0
    /\ hist = NoHist
    /\ trace = <<>>
    /\ inbox = NoWire
    /\ msg = NoMsg
    /\ sent = NoMsg
    /\ frames = NoFrames
    /\ reply = NoReply

(* --------------------------- thread helpers --------------------------- *)
Idle(t) == thr[t].pc = "idle"
At(t, op, pc) == thr[t].op = op /\ thr[t].pc = pc
Begin(t, op, pc, obj) ==
    thr' = [thr EXCEPT ![t] = [IdleThread EXCEPT !.op = op, !.pc = pc, !.obj = obj]]
Goto(t, pc) == thr' = [thr EXCEPT ![t].pc = pc]

(* fltk::app::lock().unwrap(): blocks until the lock is free *)
AppLock(t) == lock = NoThread /\ lock' = t
(* fltk::app::unlock() *)
AppUnlock(t) == lock' = NoThread

(* The slots of X11Capturable values created so far are 1..UsedCaps. *)
UsedCaps == Cardinality({i \in CapIds : caps[i].st # "free"})

(* CError::is_err: code 0 is success *)
is_err(code) == code # 0

(* ------------------- Arc<XDisplay>: the display reference -------------- *)
(* self.disp.clone(): one more holder *)
ArcCloneRaw(c) == c
ArcClone(c) == c + 1
(* n clones of self.disp, one per capturable built by capturables() *)
ArcCloneN(c, n) == IF n = 0 THEN c ELSE ArcClone(c) + (n - 1)
(* dropping an Arc runs XDisplay::drop only in the last holder *)
LastHolderAny(c) == TRUE
LastHolder(c) == c = 1

(* ------------------- XDisplay::new / X11Context::new ------------------- *)
(* XOpenDisplay is entered; the lock is not taken *)
Ctx_new_call(t) ==
    /\ t = MainThread /\ Idle(t) /\ ctx.st = "none"
    /\ ctx' = [st |-> "creating", owner |-> t]
    /\ Begin(t, "new", "native", 0)
    /\ UNCHANGED <<server, lock, disp, strong, caps, nextHandle, destroyed, sess, stops,
                   hist, trace>>

(* if handle.is_null() { return None; } Some(Self { handle }) *)
OpenResultAlways(h) == "Some"
OpenResult(h) == IF h = Null THEN "None" ELSE "Some"

(* XOpenDisplay returned: a null handle gives None, anything else the context *)
Ctx_new_ret(t) ==
    /\ At(t, "new", "native")
    /\ \E h \in {Null, 1} :
         IF OpenResult(h) = "None"
         THEN /\ ctx' = [st |-> "absent", owner |-> NoThread]
              /\ thr' = [thr EXCEPT ![t].pc = "ret", ![t].res = "None"]
              /\ UNCHANGED <<disp, strong>>
         ELSE /\ disp' = [st |-> "open", handle |-> h, closes |-> 0]
              /\ strong' = 1
              /\ ctx' = [st |-> "alive", owner |-> t]
              /\ thr' = [thr EXCEPT ![t].pc = "ret", ![t].res = "Some"]
    /\ UNCHANGED <<server, lock, caps, nextHandle, destroyed, sess, stops, hist, trace>>

(* ----------------------- X11Context::capturables ----------------------- *)
(* What create_capturables may report with room for `avail` handles: a count *)
(* with code 0, or a nonzero code; a nonzero code comes with no handle.      *)
CreateCapturablesOutcomes(avail) ==
    {[code |-> 0, n |-> k] : k \in 0..avail}
        \cup {[code |-> c, n |-> 0] : c \in Codes \ {0}}

(* if err.is_err() { if err.code() == 2 { debug } else { return Err(err) } } *)
EnumFatalStrict(code) == is_err(code)
EnumFatal(code) == is_err(code) /\ code # EmptyCode

Ctx_capturables_begin(t) ==
    /\ Idle(t) /\ ctx.st = "alive" /\ ctx.owner = t
    /\ Begin(t, "capturables", "lock", 0)
    /\ UNCHANGED <<server, lock, ctx, disp, strong, caps, nextHandle, destroyed, sess,
                   stops, hist, trace>>

(* the lock is taken and create_capturables entered *)
Ctx_capturables_call(t) ==
    /\ At(t, "capturables", "lock")
    /\ AppLock(t)
    /\ Goto(t, "native")
    /\ UNCHANGED <<server, ctx, disp, strong, caps, nextHandle, destroyed, sess, stops,
                   hist, trace>>

(* create_capturables returned, having written n fresh handles into          *)
(* handles[0..n); unlock; Err(err) on a fatal code, else one X11Capturable   *)
(* per handle of handles[0..size), each with a clone of self.disp            *)
Ctx_capturables_ret(t) ==
    /\ At(t, "capturables", "native")
    /\ AppUnlock(t)
    /\ \E o \in CreateCapturablesOutcomes(Min(HandlesLen, MaxCaps - UsedCaps)) :
         /\ nextHandle' = nextHandle + o.n
         /\ IF EnumFatal(o.code)
            THEN /\ thr' = [thr EXCEPT ![t].pc = "ret", ![t].code = o.code,
                                       ![t].res = "Err", ![t].err = o.code]
                 /\ UNCHANGED <<caps, strong>>
            ELSE /\ thr' = [thr EXCEPT ![t].pc = "ret", ![t].code = o.code,
                                       ![t].res = "Ok",
                                       ![t].out = [k \in 1..o.n |-> UsedCaps + k]]
                 /\ caps' = [i \in CapIds |->
                               IF i > UsedCaps /\ i <= UsedCaps + o.n
                               THEN [st |-> "alive",
                                     handle |-> nextHandle + (i - UsedCaps)]
                               ELSE caps[i]]
                 /\ strong' = ArcCloneN(strong, o.n)
    /\ UNCHANGED <<server, ctx, disp, destroyed, sess, stops, hist, trace>>

(* The server's answer to GetCapturableList: the names of the capturables    *)
(* that capturables() returned, or an Error.                                 *)
GetCapturableListReply(res, out) ==
    IF res = "Ok" THEN [tag |-> "CapturableList", names |-> out]
    ELSE [tag |-> "Error", names |-> <<>>]

(* ------------------------ X11Capturable::clone ------------------------- *)
(* the handle of the new value: the one clone_capturable returned *)
CloneHandleSame(own, fresh) == own
CloneHandle(own, fresh) == fresh

(* clone_capturable is entered; the lock is not taken *)
Cap_clone_call(t, i) ==
    /\ Idle(t) /\ caps[i].st = "alive" /\ UsedCaps < MaxCaps
    /\ caps' = [caps EXCEPT ![i].st = "busy",
                            ![UsedCaps + 1] = [st |-> "pending", handle |-> Null]]
    /\ thr' = [thr EXCEPT ![t] = [IdleThread EXCEPT !.op = "clone", !.pc = "native",
                                                    !.obj = i, !.n = UsedCaps + 1]]
    /\ UNCHANGED <<server, lock, ctx, disp, strong, nextHandle, destroyed, sess, stops,
                   hist, trace>>

(* Self { handle, disp: self.disp.clone() } *)
Cap_clone_ret(t) ==
    /\ At(t, "clone", "native")
    /\ nextHandle' = nextHandle + 1
    /\ caps' = [caps EXCEPT ![thr[t].n] =
                   [st |-> "alive",
                    handle |-> CloneHandle(caps[thr[t].obj].handle, nextHandle + 1)]]
    /\ strong' = ArcClone(strong)
    /\ thr' = [thr EXCEPT ![t].pc = "ret", ![t].n = 0, ![t].res = "Ok",
                          ![t].out = <<thr[t].n>>]
    /\ UNCHANGED <<server, lock, ctx, disp, destroyed, sess, stops, hist, trace>>

(* ------------------------- X11Capturable::name ------------------------- *)
(* get_capturable_name is entered; the lock is not taken *)
Cap_name_call(t, i) ==
    /\ Idle(t) /\ caps[i].st = "alive"
    /\ caps' = [caps EXCEPT ![i].st = "busy"]
    /\ Begin(t, "name", "native", i)
    /\ UNCHANGED <<server, lock, ctx, disp, strong, nextHandle, destroyed, sess, stops,
                   hist, trace>>

Cap_name_ret(t) ==
    /\ At(t, "name", "native")
    /\ thr' = [thr EXCEPT ![t].pc = "ret", ![t].res = "Ok"]
    /\ UNCHANGED <<server, lock, ctx, disp, strong, caps, nextHandle, destroyed, sess,
                   stops, hist, trace>>

(* --------------- X11Capturable::geometry / before_input ---------------- *)
(* the local n keeps the handle the capturable had when the call began *)
LockedCapOps == {"geometry", "before_input"}
(* if err.is_err() { Err(err) } else { Ok(..) } *)
OpResultLenient(code) == "Ok"
OpResult(code) == IF is_err(code) THEN "Err" ELSE "Ok"

Cap_geometry_begin(t, i) ==
    /\ Idle(t) /\ caps[i].st = "alive"
    /\ caps' = [caps EXCEPT ![i].st = "busy"]
    /\ thr' = [thr EXCEPT ![t] = [IdleThread EXCEPT !.op = "geometry", !.pc = "lock",
                                                    !.obj = i, !.n = caps[i].handle]]
    /\ UNCHANGED <<server, lock, ctx, disp, strong, nextHandle, destroyed, sess, stops,
                   hist, trace>>

Cap_before_input_begin(t, i) ==
    /\ Idle(t) /\ caps[i].st = "alive"
    /\ caps' = [caps EXCEPT ![i].st = "busy"]
    /\ thr' = [thr EXCEPT ![t] = [IdleThread EXCEPT !.op = "before_input", !.pc = "lock",
                                                    !.obj = i, !.n = caps[i].handle]]
    /\ UNCHANGED <<server, lock, ctx, disp, strong, nextHandle, destroyed, sess, stops,
                   hist, trace>>

(* the lock is taken and get_geometry_relative / capturable_before_input entered *)
Cap_op_call(t) ==
    /\ thr[t].op \in LockedCapOps /\ thr[t].pc = "lock"
    /\ AppLock(t)
    /\ Goto(t, "native")
    /\ UNCHANGED <<server, ctx, disp, strong, caps, nextHandle, destroyed, sess, stops,
                   hist, trace>>

(* the native call returned with err filled in; unlock;                      *)
(* if err.is_err() { Err(err) } else { Ok(..) }                              *)
Cap_op_ret(t) ==
    /\ thr[t].op \in LockedCapOps /\ thr[t].pc = "native"
    /\ AppUnlock(t)
    /\ \E c \in Codes :
         thr' = [thr EXCEPT ![t].pc = "ret", ![t].code = c,
                            ![t].res = OpResult(c),
                            ![t].err = IF OpResult(c) = "Err" THEN c ELSE 0]
    /\ UNCHANGED <<server, ctx, disp, strong, caps, nextHandle, destroyed, sess, stops,
                   hist, trace>>

(* --------------- Drop for X11Capturable, Drop for XDisplay ------------- *)
SessOps == {"sess_new", "sess_drop"}
(* the X11Capturable being dropped by the operation thread t is in *)
DropCap(t) == IF thr[t].op \in SessOps THEN sess.cap ELSE thr[t].obj
(* native releases made by the drop of a session, in order *)
Note(t, call) ==
    trace' = IF thr[t].op = "sess_drop" THEN Append(trace, call) ELSE trace

Cap_drop_begin(t, i) ==
    /\ Idle(t) /\ caps[i].st = "alive"
    /\ caps' = [caps EXCEPT ![i].st = "dropping"]
    /\ Begin(t, "cap_drop", "destroy_call", i)
    /\ UNCHANGED <<server, lock, ctx, disp, strong, nextHandle, destroyed, sess, stops,
                   hist, trace>>

(* unsafe { destroy_capturable(self.handle) }: entered, the lock is not taken *)
Cap_drop_call(t) ==
    /\ thr[t].pc = "destroy_call"
    /\ destroyed' = [destroyed EXCEPT ![caps[DropCap(t)].handle] = @ + 1]
    /\ Note(t, "destroy_capturable")
    /\ Goto(t, "destroy_native")
    /\ UNCHANGED <<server, lock, ctx, disp, strong, caps, nextHandle, sess, stops, hist>>

(* destroy_capturable returned; the field disp: Arc<XDisplay> is dropped *)
Cap_drop_ret(t) ==
    /\ thr[t].pc = "destroy_native"
    /\ strong' = strong - 1
    /\ caps' = [caps EXCEPT ![DropCap(t)].st = "dropped"]
    /\ Goto(t, IF LastHolder(strong) THEN "close_lock" ELSE "ret")
    /\ UNCHANGED <<server, lock, ctx, disp, nextHandle, destroyed, sess, stops, hist, trace>>

(* dropping the X11Context drops its disp: Arc<XDisplay> *)
Ctx_drop(t) ==
    /\ Idle(t) /\ ctx.st = "alive" /\ ctx.owner = t
    /\ strong' = strong - 1
    /\ ctx' = [ctx EXCEPT !.st = "dropped"]
    /\ Begin(t, "ctx_drop", IF LastHolder(strong) THEN "close_lock" ELSE "ret", 0)
    /\ UNCHANGED <<server, lock, disp, caps, nextHandle, destroyed, sess, stops, hist, trace>>

(* XDisplay::drop: the lock is taken and XCloseDisplay entered *)
XDisplay_drop_call(t) ==
    /\ thr[t].pc = "close_lock"
    /\ AppLock(t)
    /\ disp' = [disp EXCEPT !.closes = @ + 1]
    /\ Note(t, "XCloseDisplay")
    /\ Goto(t, "close_native")
    /\ UNCHANGED <<server, ctx, strong, caps, nextHandle, destroyed, sess, stops, hist>>

(* XCloseDisplay returned; unlock *)
XDisplay_drop_ret(t) ==
    /\ thr[t].pc = "close_native"
    /\ AppUnlock(t)
    /\ disp' = [disp EXCEPT !.st = "closed"]
    /\ Goto(t, "ret")
    /\ UNCHANGED <<server, ctx, strong, caps, nextHandle, destroyed, sess, stops, hist, trace>>

(* ------------- X11Context::map_input_device_to_entire_screen ----------- *)
(* device_name either holds an interior NUL byte (nul) or does not *)
Ctx_map_begin(t, nul) ==
    /\ Idle(t) /\ ctx.st = "alive" /\ ctx.owner = t
    /\ thr' = [thr EXCEPT ![t] = [IdleThread EXCEPT !.op = "map", !.pc = "lock",
                                                    !.n = IF nul THEN 1 ELSE 0]]
    /\ UNCHANGED <<server, lock, ctx, disp, strong, caps, nextHandle, destroyed, sess,
                   stops, hist, trace>>

(* The lock is taken; CString::new(device_name).unwrap() panics on an        *)
(* interior NUL byte, and the lock being no guard, the unwinding thread      *)
(* leaves it held; otherwise the native call is entered.                     *)
Ctx_map_call(t) ==
    /\ At(t, "map", "lock")
    /\ AppLock(t)
    /\ Goto(t, IF thr[t].n = 1 THEN "panicked" ELSE "native")
    /\ UNCHANGED <<server, ctx, disp, strong, caps, nextHandle, destroyed, sess, stops,
                   hist, trace>>

(* the native call returned; unlock; the CError itself is the return value *)
Ctx_map_ret(t) ==
    /\ At(t, "map", "native")
    /\ AppUnlock(t)
    /\ \E c \in Codes :
         thr' = [thr EXCEPT ![t].pc = "ret", ![t].n = 0, ![t].code = c,
                            ![t].res = "CError", ![t].err = c]
    /\ UNCHANGED <<server, ctx, disp, strong, caps, nextHandle, destroyed, sess, stops,
                   hist, trace>>

(* -------------------------- ScreenCaptureX11 --------------------------- *)
(* CImage::new *)
CImage_stale == [data |-> 1, width |-> 0, height |-> 0]
CImage_new == [data |-> Null, width |-> 0, height |-> 0]

(* if err.is_err() { Err(err) } else { Ok(Self { .. }) } *)
NewSessionStateAlways(code) == "alive"
NewSessionState(code) == IF is_err(code) THEN "failed" ELSE "alive"

(* return Err(err): the parameter capturable goes out of scope, its drop runs *)
FailedNewLeak == "ret"
FailedNewNext == "destroy_call"

(* ScreenCaptureX11::new(capturable, capture_cursor): the capturable moves in *)
Sess_new_begin(t, i, cursor) ==
    /\ Idle(t) /\ caps[i].st = "alive" /\ sess.st = "none"
    /\ sess' = [NoSess EXCEPT !.st = "starting", !.owner = t, !.cap = i,
                              !.capture_cursor = cursor]
    /\ Begin(t, "sess_new", "lock", 0)
    /\ caps' = [caps EXCEPT ![i].st = "moved"]
    /\ UNCHANGED <<server, lock, ctx, disp, strong, nextHandle, destroyed, stops, hist, trace>>

(* the lock is taken and start_capture entered *)
Sess_new_call(t) ==
    /\ At(t, "sess_new", "lock")
    /\ AppLock(t)
    /\ Goto(t, "native")
    /\ UNCHANGED <<server, ctx, disp, strong, caps, nextHandle, destroyed, sess, stops,
                   hist, trace>>

(* start_capture returned a session handle with code 0, else an error code;  *)
(* unlock; Err(err): the capturable, owned by new, is dropped on return;     *)
(* Ok(Self { handle, capturable, img: CImage::new(), capture_cursor })       *)
Sess_new_ret(t) ==
    /\ At(t, "sess_new", "native")
    /\ AppUnlock(t)
    /\ \E c \in Codes :
         LET st == NewSessionState(c) IN
           IF st = "failed"
           THEN /\ sess' = [sess EXCEPT !.st = st]
                /\ thr' = [thr EXCEPT ![t].pc = FailedNewNext, ![t].code = c,
                                      ![t].res = "Err", ![t].err = c]
                /\ caps' = [caps EXCEPT ![sess.cap].st = "dropping"]
           ELSE /\ sess' = [sess EXCEPT !.st = st,
                                        !.handle = IF c = 0 THEN 1 ELSE Null,
                                        !.data = CImage_new.data,
                                        !.width = CImage_new.width,
                                        !.height = CImage_new.height]
                /\ thr' = [thr EXCEPT ![t].pc = "ret", ![t].code = c, ![t].res = "Ok"]
                /\ caps' = [caps EXCEPT ![sess.cap].st = "insess"]
    /\ UNCHANGED <<server, ctx, disp, strong, nextHandle, destroyed, stops, hist, trace>>

(* ------------------------ ScreenCaptureX11::capture -------------------- *)
(* the frame sizes the native side produces: width and height differ *)
FrameSizes == {<<w, MaxDim + 2 - w>> : w \in 1..MaxDim}
(* What capture_sceen may leave in *img: on success a buffer and its size;  *)
(* on failure the size untouched and the data pointer old or part-written.  *)
CaptureOutcomes ==
    {[code |-> 0, data |-> 1, width |-> z[1], height |-> z[2]] : z \in FrameSizes}
        \cup {[code |-> c, data |-> d, width |-> sess.width, height |-> sess.height] :
                  c \in Codes \ {0}, d \in {sess.data, 1}}

(* self.img.data = std::ptr::null() *)
FailedFrameDataKept(data) == data
FailedFrameData(data) == Null
(* the Err branch assigns self.img.data and nothing else of the session *)
CaptureErrSessionStopped(s) == [s EXCEPT !.handle = Null]
CaptureErrSession(s) == s

Sess_capture_begin(t) ==
    /\ Idle(t) /\ sess.st = "alive" /\ sess.owner = t
    /\ Begin(t, "capture", "lock", 0)
    /\ UNCHANGED <<server, lock, ctx, disp, strong, caps, nextHandle, destroyed, sess,
                   stops, hist, trace>>

(* the lock is taken and capture_sceen entered *)
Sess_capture_call(t) ==
    /\ At(t, "capture", "lock")
    /\ AppLock(t)
    /\ Goto(t, "native")
    /\ UNCHANGED <<server, ctx, disp, strong, caps, nextHandle, destroyed, sess, stops,
                   hist, trace>>

(* capture_sceen returned with *img and err filled in; unlock;               *)
(* if err.is_err() { self.img.data = null; Err(err.into()) } else { Ok(()) } *)
Sess_capture_ret(t) ==
    /\ At(t, "capture", "native")
    /\ AppUnlock(t)
    /\ \E o \in CaptureOutcomes :
         /\ sess' = [(IF is_err(o.code) THEN CaptureErrSession(sess) ELSE sess) EXCEPT
                       !.data = IF is_err(o.code) THEN FailedFrameData(o.data)
                                ELSE o.data,
                       !.width = o.width,
                       !.height = o.height]
         /\ hist' = IF is_err(o.code) THEN [hist EXCEPT !.last = "Err"]
                    ELSE [size |-> <<o.width, o.height>>, last |-> "Ok", succ |-> TRUE]
         /\ thr' = [thr EXCEPT ![t].pc = "ret", ![t].code = o.code,
                               ![t].res = IF is_err(o.code) THEN "Err" ELSE "Ok",
                               ![t].err = IF is_err(o.code) THEN o.code ELSE 0]
    /\ UNCHANGED <<server, ctx, disp, strong, caps, nextHandle, destroyed, stops, trace>>

(* ScreenCaptureX11::pixel_provider *)
pixel_provider == IF sess.data = Null THEN "None" ELSE "BGR0"
(* ScreenCaptureX11::size *)
size == <<sess.width, sess.height>>

(* ----------------------- Drop for ScreenCaptureX11 --------------------- *)
(* drop() runs first; the fields, the capturable among them, go after it *)
SessDropFieldsFirst == "destroy_call"
SessDropFirst == "lock"

Sess_drop_begin(t) ==
    /\ Idle(t) /\ sess.st = "alive" /\ sess.owner = t
    /\ sess' = [sess EXCEPT !.st = "dropping"]
    /\ Begin(t, "sess_drop", SessDropFirst, 0)
    /\ UNCHANGED <<server, lock, ctx, disp, strong, caps, nextHandle, destroyed, stops,
                   hist, trace>>

(* the lock is taken and stop_capture(self.handle, &mut err) entered *)
Sess_drop_call(t) ==
    /\ At(t, "sess_drop", "lock")
    /\ AppLock(t)
    /\ stops' = stops + 1
    /\ Note(t, "stop_capture")
    /\ Goto(t, "native")
    /\ UNCHANGED <<server, ctx, disp, strong, caps, nextHandle, destroyed, sess, hist>>

(* stop_capture returned; unlock; drop() is over and the fields are dropped *)
Sess_drop_ret(t) ==
    /\ At(t, "sess_drop", "native")
    /\ AppUnlock(t)
    /\ caps' = [caps EXCEPT ![sess.cap].st = "dropping"]
    /\ Goto(t, "destroy_call")
    /\ UNCHANGED <<server, ctx, disp, strong, nextHandle, destroyed, sess, stops, hist, trace>>

(* --------------------------- end of an operation ----------------------- *)
BorrowingOps == {"clone", "name", "geometry", "before_input"}

(* The caller has the result and goes on: the borrow of a capturable ends,  *)
(* a dropped session is gone.                                               *)
Return(t) ==
    /\ thr[t].pc = "ret"
    /\ thr' = [thr EXCEPT ![t] = IdleThread]
    /\ caps' = IF thr[t].op \in BorrowingOps
               THEN [caps EXCEPT ![thr[t].obj].st = "alive"] ELSE caps
    /\ sess' = IF thr[t].op = "sess_drop"
               THEN [NoSess EXCEPT !.st = "dropped", !.cap = sess.cap,
                                   !.handle = sess.handle]
               ELSE sess
    /\ hist' = IF thr[t].op = "sess_drop" THEN NoHist ELSE hist
    /\ UNCHANGED <<server, lock, ctx, disp, strong, nextHandle, destroyed, stops, trace>>

Next ==
    \E t \in Threads :
        \/ Ctx_new_call(t) \/ Ctx_new_ret(t)
        \/ Ctx_capturables_begin(t) \/ Ctx_capturables_call(t)
        \/ Ctx_capturables_ret(t)
        \/ \E i \in CapIds : Cap_clone_call(t, i)
        \/ Cap_clone_ret(t)
        \/ \E i \in CapIds : Cap_name_call(t, i)
        \/ Cap_name_ret(t)
        \/ \E i \in CapIds : Cap_geometry_begin(t, i)
        \/ \E i \in CapIds : Cap_before_input_begin(t, i)
        \/ Cap_op_call(t) \/ Cap_op_ret(t)
        \/ \E i \in CapIds : Cap_drop_begin(t, i)
        \/ Cap_drop_call(t) \/ Cap_drop_ret(t)
        \/ Ctx_drop(t)
        \/ XDisplay_drop_call(t) \/ XDisplay_drop_ret(t)
        \/ \E nul \in BOOLEAN : Ctx_map_begin(t, nul)
        \/ Ctx_map_call(t) \/ Ctx_map_ret(t)
        \/ \E i \in CapIds, cursor \in BOOLEAN : Sess_new_begin(t, i, cursor)
        \/ Sess_new_call(t) \/ Sess_new_ret(t)
        \/ Sess_capture_begin(t)
        \/ Sess_capture_call(t) \/ Sess_capture_ret(t)
        \/ Sess_drop_begin(t)
        \/ Sess_drop_call(t) \/ Sess_drop_ret(t)
        \/ Return(t)

Spec == Init /\ [][Next]_vars

(* ============================ the message loop ========================= *)
(* The server takes one encoded MessageInbound at a time, decodes it and   *)
(* handles it; a value can also be encoded again, which puts its encoding  *)
(* where the decoder reads.                                                *)
InboundTags == {"PointerEvent", "TryGetFrame", "GetCapturableList", "Config"}
OutboundTags == {"CapturableList", "NewVideo", "ConfigOk", "ConfigError", "Error"}
Bytes == 0..U8Max
(* the values of the field buttons a client sends in the model *)
ButtonsInputs == {NONE, U8Max}

RECURSIVE BitAnd(_, _)
BitAnd(a, b) ==
    IF a = 0 \/ b = 0 THEN 0
    ELSE (a % 2) * (b % 2) + 2 * BitAnd(a \div 2, b \div 2)
RECURSIVE BitOr(_, _)
BitOr(a, b) ==
    IF a = 0 THEN b
    ELSE IF b = 0 THEN a
    ELSE (IF a % 2 = 1 \/ b % 2 = 1 THEN 1 ELSE 0) + 2 * BitOr(a \div 2, b \div 2)

(* Button::all(): the union of the declared flags *)
Button_all ==
    BitOr(NONE, BitOr(PRIMARY, BitOr(SECONDARY, BitOr(AUXILARY, BitOr(FOURTH, FIFTH)))))
(* Button::from_bits_truncate(bits): bits & Button::all().bits *)
from_bits_unchecked(bits) == bits
from_bits_truncate(bits) == BitAnd(bits, Button_all)

(* from_str: let bits: u8 = Deserialize::deserialize(deserializer)?;        *)
(* Ok(Button::from_bits_truncate(bits))                                     *)
from_str(field) ==
    IF field.kind = "u8" /\ field.val \in Bytes
    THEN [ok |-> TRUE, bits |-> from_bits_truncate(field.val)]
    ELSE [ok |-> FALSE, bits |-> NONE]

(* #[derive(Serialize)] on the struct bitflags! declares, Button { bits: u8 }: *)
(* a struct with the field bits                                              *)
Button_serialize(b) == BitsStruct(b)

(* #[derive(Serialize)] of the message enums and of PointerEvent *)
Serialize(v) ==
    IF v.tag = "PointerEvent"
    THEN [tag |-> v.tag, button |-> Button_serialize(v.button),
          buttons |-> Button_serialize(v.buttons)]
    ELSE [tag |-> v.tag, button |-> Absent, buttons |-> Absent]

(* #[derive(Deserialize)] of the message enums and of PointerEvent, whose   *)
(* button and buttons are read with from_str                                *)
Deserialize(w) ==
    IF w.tag = "PointerEvent"
    THEN LET b == from_str(w.button)
             bs == from_str(w.buttons)
         IN IF b.ok /\ bs.ok
            THEN [tag |-> w.tag, button |-> b.bits, buttons |-> bs.bits]
            ELSE DecodeError
    ELSE IF w.tag \in InboundTags \cup OutboundTags THEN Message(w.tag)
    ELSE DecodeError

(* what a client puts on the wire: button and buttons as numbers *)
ClientEncode(tag, b, bs) ==
    IF tag = "PointerEvent" THEN [tag |-> tag, button |-> U8(b), buttons |-> U8(bs)]
    ELSE [tag |-> tag, button |-> Absent, buttons |-> Absent]

(* a client sends a message; the loop is free *)
ClientSend ==
    /\ inbox = NoWire /\ msg = NoMsg
    /\ \E tag \in InboundTags, b \in Bytes, bs \in ButtonsInputs :
         /\ tag = "TryGetFrame" => frames.reqs < MaxReq
         /\ tag # "PointerEvent" => (b = NONE /\ bs = NONE)
         /\ inbox' = ClientEncode(tag, b, bs)
    /\ sent' = NoMsg
    /\ reply' = NoReply
    /\ UNCHANGED <<msg, frames, resources>>

(* serde decodes what is in the inbox; the inbox keeps it until the        *)
(* message is dealt with                                                   *)
Decode ==
    /\ inbox # NoWire /\ msg = NoMsg
    /\ msg' = Deserialize(inbox)
    /\ UNCHANGED <<inbox, sent, frames, reply, resources>>

(* the value at hand is encoded, and the encoding goes where Decode reads *)
Encode ==
    /\ sent = NoMsg
    /\ msg.tag \in InboundTags \cup OutboundTags
    /\ inbox' = Serialize(msg)
    /\ sent' = msg
    /\ msg' = NoMsg
    /\ UNCHANGED <<frames, reply, resources>>

(* the value at hand is used up: a decoding error is reported, an outbound *)
(* message has reached the client, a PointerEvent has been forwarded       *)
Consume ==
    /\ msg.tag \in OutboundTags \cup {DecodeError.tag, "PointerEvent"}
    /\ inbox' = NoWire
    /\ msg' = NoMsg
    /\ sent' = NoMsg
    /\ reply' = NoReply
    /\ UNCHANGED <<frames, resources>>

(* Config(..) is answered with ConfigOk or ConfigError *)
HandleConfig ==
    /\ msg.tag = "Config"
    /\ \E r \in {"ConfigOk", "ConfigError"} : msg' = Message(r)
    /\ inbox' = NoWire
    /\ sent' = NoMsg
    /\ UNCHANGED <<frames, reply, resources>>

(* ---- TryGetFrame ---- *)
(* a request is taken up only when no capture/encode is in flight *)
TryGetFrameQueued(phase) == TRUE
TryGetFrameAccepted(phase) == phase = "idle"

HandleTryGetFrame ==
    /\ msg.tag = "TryGetFrame"
    /\ frames' = IF TryGetFrameAccepted(frames.phase)
                 THEN [frames EXCEPT !.reqs = @ + 1, !.accepted = @ + 1,
                                     !.phase = "capturing"]
                 ELSE [frames EXCEPT !.reqs = @ + 1]
    /\ inbox' = NoWire
    /\ msg' = NoMsg
    /\ sent' = NoMsg
    /\ UNCHANGED <<reply, resources>>

(* the capture() call of the request taken up *)
FrameCapture ==
    /\ frames.phase = "capturing"
    /\ frames' = [frames EXCEPT !.captures = @ + 1, !.phase = "encoding"]
    /\ UNCHANGED <<inbox, msg, sent, reply, resources>>

(* the frame is encoded and sent, or the failure reported; nothing is in flight *)
FrameDone ==
    /\ frames.phase = "encoding"
    /\ frames' = [frames EXCEPT !.out = @ + 1, !.phase = "idle"]
    /\ UNCHANGED <<inbox, msg, sent, reply, resources>>

(* ---- GetCapturableList ---- *)
(* handles.len() as c_int: the capacity create_capturables is given *)
CapacityArgOver(len) == len + 1
CapacityArg(len) == len

(* What create_capturables may report when the display has avail targets   *)
(* and it is given room for cap handles: min(avail, cap) handles written   *)
(* with code 0; with no target, the "empty" code; or a fatal code.         *)
EnumerateOutcomes(avail, cap) ==
    {[code |-> 0, n |-> Min(avail, cap)]}
        \cup (IF avail = 0 THEN {[code |-> EmptyCode, n |-> 0]} ELSE {})
        \cup {[code |-> c, n |-> 0] : c \in Codes \ {0, EmptyCode}}

(* let mut handles = [null; 128] after create_capturables wrote n handles: *)
(* what is written past the end of the array is not in the array           *)
HandlesAfter(n) == [k \in 1..HandlesLen |-> IF k <= n THEN k ELSE Null]

(* handles[0..size as usize]: a range past the end of the array panics *)
SliceInRange(n, len) == n <= len

HandleGetCapturableList ==
    /\ msg.tag = "GetCapturableList"
    /\ \E avail \in 0..(HandlesLen + MaxExtra) :
       \E o \in EnumerateOutcomes(avail, CapacityArg(HandlesLen)) :
         LET handles == HandlesAfter(o.n)
             res == IF EnumFatal(o.code) THEN "Err"
                    ELSE IF SliceInRange(o.n, HandlesLen) THEN "Ok" ELSE "panic"
             list == IF res = "Ok" THEN [k \in 1..o.n |-> handles[k]] ELSE <<>>
         IN /\ reply' = [res |-> res, avail |-> avail, count |-> o.n, list |-> list]
            /\ msg' = Message(GetCapturableListReply(res, list).tag)
    /\ inbox' = NoWire
    /\ sent' = NoMsg
    /\ UNCHANGED <<frames, resources>>

ServerNext ==
    \/ ClientSend
    \/ Decode
    \/ Encode
    \/ Consume
    \/ HandleConfig
    \/ HandleTryGetFrame
    \/ FrameCapture
    \/ FrameDone
    \/ HandleGetCapturableList

ServerSpec == Init /\ [][ServerNext]_vars

(* The steps of thread t inside an operation it has begun: what the thread  *)
(* does by itself once the caller has made the call.                        *)
Step(t) ==
    \/ Ctx_new_ret(t)
    \/ Ctx_capturables_call(t) \/ Ctx_capturables_ret(t)
    \/ Cap_clone_ret(t) \/ Cap_name_ret(t)
    \/ Cap_op_call(t) \/ Cap_op_ret(t)
    \/ Cap_drop_call(t) \/ Cap_drop_ret(t)
    \/ XDisplay_drop_call(t) \/ XDisplay_drop_ret(t)
    \/ Ctx_map_call(t) \/ Ctx_map_ret(t)
    \/ Sess_new_call(t) \/ Sess_new_ret(t)
    \/ Sess_capture_call(t) \/ Sess_capture_ret(t)
    \/ Sess_drop_call(t) \/ Sess_drop_ret(t)
    \/ Return(t)

(* Every native call returns and the lock is granted fairly: a thread whose *)
(* next step is possible again and again takes it.                          *)
FairSpec == Spec /\ \A t \in Threads : SF_vars(Step(t))

(* ============================== properties ============================= *)
(* a native call of thread t is in progress *)
InNative(t) == thr[t].pc \in {"native", "destroy_native", "close_native"}
(* thread t is inside an operation: it has begun and neither returned nor aborted *)
InOperation(t) == thr[t].pc \notin {"idle", "panicked"}
(* the X11Capturable value in slot i exists and still holds its display reference *)
CapAlive(i) == caps[i].st \in {"alive", "busy", "moved", "insess", "dropping"}
(* no drop is under way *)
DropsDone ==
    \A t \in Threads :
        thr[t].pc \notin {"destroy_call", "destroy_native", "close_lock", "close_native"}

(* C1: XCloseDisplay is never called while the X11Context or a capturable  *)
(* derived from it (by enumeration or by cloning) is alive.                *)
C1_DisplayOutlivesHolders ==
    disp.closes > 0 => (ctx.st # "alive" /\ \A i \in CapIds : ~CapAlive(i))

C1_Witness ==
    /\ disp.st = "closed" /\ ctx.st = "dropped"
    /\ \A i \in CapIds : caps[i].st = "dropped"

(* C2: stop_capture is called once, by the drop, on the handle of a session *)
(* whose start_capture succeeded; never after a failed start, never twice.  *)
C2_StopExactlyOnce ==
    /\ stops <= 1
    /\ (stops = 1 => sess.handle # Null)
    /\ (sess.st \in {"none", "starting", "failed", "alive"} => stops = 0)
    /\ (sess.st = "dropped" => stops = 1)

C2_Witness == sess.st = "dropped" /\ stops = 1 /\ sess.handle # Null

(* C3: every native call runs under the lock, so no two native calls are   *)
(* in progress at the same time.                                           *)
C3_NativeCallsSerialized ==
    /\ \A t \in Threads : InNative(t) => lock = t
    /\ \A t, u \in Threads : (InNative(t) /\ InNative(u)) => t = u

(* C4: after a failed capture(), pixel_provider() is None and size() is    *)
(* what it was after the last successful capture, until a capture succeeds.*)
C4_FailedCaptureHidesFrame ==
    (sess.st = "alive" /\ hist.last = "Err")
        => (pixel_provider = "None" /\ size = hist.size)

C4_Witness ==
    /\ sess.st = "alive" /\ hist.last = "Err" /\ hist.succ
    /\ \E t \in Threads : At(t, "capture", "ret") /\ thr[t].res = "Err"

(* C5: capturables() returns Ok and no capturable on the "empty" code 2,   *)
(* Err carrying the code and no capturable on any other nonzero code, Ok   *)
(* on code 0; the reply to GetCapturableList on code 2 is an empty         *)
(* CapturableList.                                                         *)
C5_EnumerationResult ==
    \A t \in Threads :
        At(t, "capturables", "ret") =>
            /\ thr[t].code = EmptyCode =>
                 /\ thr[t].res = "Ok" /\ thr[t].out = <<>> /\ thr[t].err = 0
                 /\ GetCapturableListReply(thr[t].res, thr[t].out)
                        = [tag |-> "CapturableList", names |-> <<>>]
            /\ thr[t].code \notin {0, EmptyCode} =>
                 thr[t].res = "Err" /\ thr[t].err = thr[t].code /\ thr[t].out = <<>>
            /\ thr[t].code = 0 => thr[t].res = "Ok"

C5_Witness ==
    \E t \in Threads : At(t, "capturables", "ret") /\ thr[t].code = EmptyCode

(* C6: a thread holds the lock only inside an operation: once its          *)
(* operation has ended, by a return or by an abort, the lock is released.  *)
C6_LockReleasedAtExit ==
    \A t \in Threads : lock = t => InOperation(t)

(* C7: the native handles of the capturables are pairwise different, every *)
(* handle handed out is owned by a capturable, and destroy_capturable has  *)
(* been called once on the handle of a dropped capturable and never on the *)
(* handle of a live one.                                                   *)
C7_HandleOwnership ==
    /\ \A i, j \in CapIds :
         (i # j /\ caps[i].handle # Null /\ caps[j].handle # Null)
             => caps[i].handle # caps[j].handle
    /\ \A h \in 1..nextHandle : \E i \in CapIds : caps[i].handle = h
    /\ \A i \in CapIds :
         caps[i].handle # Null =>
             /\ destroyed[caps[i].handle] <= 1
             /\ caps[i].st = "dropped" => destroyed[caps[i].handle] = 1
             /\ caps[i].st \in {"alive", "busy", "moved", "insess"}
                    => destroyed[caps[i].handle] = 0

C7_Witness ==
    \E t \in Threads :
        /\ At(t, "clone", "ret")
        /\ caps[thr[t].out[1]].st = "dropped"
        /\ caps[thr[t].obj].st = "busy"
        /\ destroyed[caps[thr[t].obj].handle] = 0

(* C8: XCloseDisplay is called at most once, by the last holder; once the  *)
(* context and every capturable are dropped it has been called once.       *)
C8_ClosedExactlyOnce ==
    /\ disp.closes <= 1
    /\ disp.closes = 1 => strong = 0
    /\ (ctx.st = "dropped" /\ DropsDone
            /\ \A i \in CapIds : caps[i].st \in {"free", "dropped"})
           => disp.closes = 1

C8_Witness ==
    /\ ctx.st = "dropped" /\ DropsDone /\ disp.closes = 1
    /\ caps[1].st = "dropped" /\ caps[2].st = "free"
    /\ \A t \in Threads : Idle(t)

ReleaseOrder == <<"stop_capture", "destroy_capturable", "XCloseDisplay">>

(* C9: the drop of a session releases in the order session, capturable,    *)
(* display: stop_capture, then destroy_capturable, then XCloseDisplay if   *)
(* the session held the last reference to the display.                     *)
C9_TeardownOrder ==
    /\ Len(trace) <= 3
    /\ \A k \in 1..Len(trace) : trace[k] = ReleaseOrder[k]
    /\ sess.st = "dropped" => Len(trace) >= 2

C9_Witness == sess.st = "dropped" /\ Len(trace) = 3 /\ ctx.st = "dropped"

(* C10: before any capture() has succeeded, failed ones included,          *)
(* pixel_provider() is None and size() is (0, 0).                          *)
C10_FreshSessionHasNoFrame ==
    (sess.st = "alive" /\ ~hist.succ) => (pixel_provider = "None" /\ size = <<0, 0>>)

C10_Witness == sess.st = "alive" /\ ~hist.succ /\ hist.last = "Err"

(* C11: no acquisition leaves partial state: a failed XOpenDisplay gives    *)
(* None, no XDisplay and no XCloseDisplay; a context that exists holds an   *)
(* open display; a failed start_capture gives no ScreenCaptureX11, so no    *)
(* stop_capture; a fatal enumeration hands no X11Capturable to the caller.  *)
C11_NoPartialState ==
    /\ ctx.st = "absent" => (disp.st = "none" /\ disp.closes = 0 /\ strong = 0)
    /\ \A t \in Threads :
         At(t, "new", "ret") =>
             (thr[t].res = "None" <=> ctx.st = "absent")
    /\ ctx.st = "alive" => (disp.st = "open" /\ disp.handle # Null)
    /\ disp.closes > 0 => disp.handle # Null
    /\ sess.st = "failed" => (sess.handle = Null /\ stops = 0)
    /\ \A t \in Threads :
         (thr[t].op = "sess_new" /\ thr[t].res = "Err") => sess.st = "failed"
    /\ \A t \in Threads :
         (At(t, "capturables", "ret") /\ thr[t].res = "Err") => thr[t].out = <<>>

C11_Witness ==
    /\ ctx.st = "absent"
    /\ \E t \in Threads : At(t, "new", "ret") /\ thr[t].res = "None"

(* C14: a failed native mapping is advisory: what                           *)
(* map_input_device_to_entire_screen hands back to its caller is the same   *)
(* as on success (no error code), and the context is still usable.          *)
C14_MapFailureAdvisory ==
    \A t \in Threads :
        At(t, "map", "ret") => (~is_err(thr[t].err) /\ ctx.st = "alive")

(* C15: geometry() and before_input() return Err, carrying the native code, *)
(* exactly when the native call reported a nonzero code, and Ok otherwise;  *)
(* the capturable keeps its handle and its display reference either way.    *)
C15_CapOpResult ==
    \A t \in Threads :
        (thr[t].op \in LockedCapOps /\ thr[t].pc = "ret") =>
            /\ thr[t].res = "Err" <=> thr[t].code # 0
            /\ thr[t].res = "Err" => thr[t].err = thr[t].code
            /\ thr[t].res \in {"Ok", "Err"}
            /\ caps[thr[t].obj].handle = thr[t].n
            /\ CapAlive(thr[t].obj) /\ strong >= 1 /\ disp.closes = 0

C15_Witness ==
    /\ \E t \in Threads : At(t, "geometry", "ret") /\ thr[t].res = "Err"
    /\ \E t \in Threads : At(t, "before_input", "ret") /\ thr[t].res = "Err"

(* a capture() of thread t fails in this step *)
CaptureFails(t) == At(t, "capture", "native") /\ thr'[t].res = "Err"

(* C18: a failed capture() leaves the session usable: the step changes      *)
(* nothing of the session but the frame, which becomes absent; it calls no  *)
(* stop_capture and touches no capturable; and once it has returned,        *)
(* capture() can be called again.                                           *)
C18_FailedCaptureKeepsSession ==
    /\ [][\A t \in Threads :
            CaptureFails(t) =>
                /\ sess' = [sess EXCEPT !.data = Null]
                /\ sess'.st = "alive" /\ sess'.handle # Null
                /\ stops' = stops /\ stops = 0
                /\ caps' = caps /\ caps[sess.cap].st = "insess"
                /\ destroyed' = destroyed /\ strong' = strong]_vars
    /\ [](\A t \in Threads :
            (sess.st = "alive" /\ sess.owner = t /\ hist.last = "Err" /\ Idle(t))
                => ENABLED Sess_capture_begin(t))

C18_Witness ==
    /\ sess.st = "alive" /\ hist.last = "Err" /\ sess.capture_cursor
    /\ Idle(sess.owner) /\ sess.handle # Null /\ stops = 0

(* C19: ScreenCaptureX11::new owns the capturable moved into it: when       *)
(* start_capture fails, destroy_capturable has been called once on its      *)
(* handle and its display reference is given up by the time new returns the *)
(* error; when it succeeds, the capturable is not destroyed as long as the  *)
(* session lives.                                                           *)
C19_NewOwnsCapturable ==
    /\ \A t \in Threads :
         (At(t, "sess_new", "ret") /\ thr[t].res = "Err") =>
             /\ caps[sess.cap].st = "dropped"
             /\ destroyed[caps[sess.cap].handle] = 1
    /\ sess.st \in {"starting", "alive"} =>
         /\ caps[sess.cap].st \in {"moved", "insess"}
         /\ destroyed[caps[sess.cap].handle] = 0
    /\ sess.st \in {"failed", "dropping", "dropped"} =>
         destroyed[caps[sess.cap].handle] <= 1

C19_Witness ==
    \E t \in Threads :
        /\ At(t, "sess_new", "ret") /\ thr[t].res = "Err"
        /\ destroyed[caps[sess.cap].handle] = 1 /\ disp.closes = 1

(* thread t is about to take the lock *)
AtLock(t) == thr[t].pc \in {"lock", "close_lock"}

(* C20: no thread asks for the lock while it holds it, the chain of drops   *)
(* session, capturable, display included; and every operation that has      *)
(* begun comes to an end.                                                   *)
C20_NoDeadlock ==
    /\ [](\A t \in Threads : AtLock(t) => lock # t)
    /\ \A t \in Threads : InOperation(t) ~> ~InOperation(t)

(* C12: decoding button and buttons from any unsigned 8-bit value never    *)
(* fails and gives the value AND 0b00011111 (0xFF gives the 5 defined      *)
(* bits, 0x00 none); no Button value held has one of the 3 high bits.      *)
C12_ButtonDecodeTruncates ==
    /\ (inbox.tag = "PointerEvent" /\ inbox.button.kind = "u8"
            /\ inbox.buttons.kind = "u8" /\ msg # NoMsg) =>
         /\ msg.tag = "PointerEvent"
         /\ msg.button = inbox.button.val % 32
         /\ msg.buttons = inbox.buttons.val % 32
    /\ msg.button \in 0..31 /\ msg.buttons \in 0..31
    /\ sent.button \in 0..31 /\ sent.buttons \in 0..31

C12_Witness ==
    /\ inbox = ClientEncode("PointerEvent", U8Max, NONE)
    /\ msg = [tag |-> "PointerEvent", button |-> 31, buttons |-> 0]

(* C13: a value that is encoded and then decoded comes back equal, and the *)
(* encoding of button and buttons is one unsigned 8-bit integer each, the  *)
(* form the decoder reads.                                                 *)
C13_RoundTrip ==
    /\ (sent # NoMsg /\ msg # NoMsg) => msg = sent
    /\ (sent # NoMsg /\ inbox.tag = "PointerEvent") =>
         (inbox.button.kind = "u8" /\ inbox.buttons.kind = "u8")

TryGetFrameWhileBusy ==
    msg.tag = "TryGetFrame" /\ frames.phase # "idle" /\ frames'.reqs = frames.reqs + 1

(* C17: a TryGetFrame handled while a capture/encode is in flight is       *)
(* dropped: no capture, no outbound message, no error, no retry later;     *)
(* capture() is called only for a request taken up, once.                  *)
C17_TryGetFrameDropped ==
    /\ [][TryGetFrameWhileBusy =>
            /\ frames' = [frames EXCEPT !.reqs = @ + 1]
            /\ msg' = NoMsg /\ reply' = reply]_vars
    /\ [][frames'.captures # frames.captures =>
            /\ frames.phase = "capturing"
            /\ frames'.captures = frames.captures + 1]_vars
    /\ [](/\ frames.captures <= frames.accepted
          /\ frames.accepted <= frames.reqs
          /\ frames.out <= frames.captures
          /\ frames.phase = "idle" =>
               (frames.captures = frames.accepted /\ frames.out = frames.captures))

C17_Witness ==
    /\ frames.phase = "idle" /\ frames.reqs = MaxReq
    /\ frames.accepted = 1 /\ frames.captures = 1 /\ frames.out = 1
    /\ inbox = NoWire /\ msg = NoMsg

====
